---------------------------- MODULE Spec2Model ----------------------------
(***************************************************************************)
(* Spectral differentiation and diagnostic fields of                       *)
(* compute-okuboweiss-field (src/src/functions.py), in exact arithmetic.   *)
(*                                                                         *)
(* Numbers.  The program computes in floating point; the model computes    *)
(* the same expressions exactly.  For a transform length N that divides    *)
(* 12, every twiddle factor exp(2*pi*i*k*n/N) is a power of                *)
(* z = exp(2*pi*i/12) = sqrt(3)/2 + i/2, so every intermediate value is    *)
(*      (a + b*sqrt(3) + i*(c + d*sqrt(3))) / q  *  pi^p                   *)
(* with integers a, b, c, d, q > 0, p >= 0.  A number is the record        *)
(* [a, b, c, d, q, p] in lowest terms, so that equal values are equal      *)
(* records.  pi is transcendental over Q(sqrt(3), i): values with          *)
(* different p are different unless both are zero.                         *)
(***************************************************************************)
EXTENDS Integers, Sequences, FiniteSets, TLC

VARIABLES pc, array, psi, vx, vy, result

vars == <<pc, array, psi, vx, vy, result>>

(***************************************************************************)
(* Bounds of the checked inputs.                                           *)
(***************************************************************************)
\* entries of an input sequence or field lie in -MaxVal .. MaxVal
MaxVal == 1
\* an input field has at most MaxNonzero non-zero entries
MaxNonzero == 1

\* noise samples are multiples of 1 / NoiseRes
NoiseRes == 2

\* lengths of the 1D inputs: 0, 1 and lengths dividing 12
Lens == {0, 1, 2, 3, 4, 6}
\* grid sizes of the 2D inputs, each dividing 12
Sizes == {1, 2, 3, 4}
\* axis lengths of the arguments of the shape-checked calls
ShapeDims == {1, 2, 3}
\* grid sizes and smoothing parameters of the generator
GenSizes == {1, 2, 3}
Sigmas == {0, 1}

----------------------------------------------------------------------------
(***************************************************************************)
(* Exact numbers                                                           *)
(***************************************************************************)
Abs(n) == IF n < 0 THEN -n ELSE n

RECURSIVE Gcd(_, _)
Gcd(m, n) == IF n = 0 THEN Abs(m) ELSE Gcd(Abs(n), Abs(m) % Abs(n))

Zero == [a |-> 0, b |-> 0, c |-> 0, d |-> 0, q |-> 1, p |-> 0]

IsZero(x) == x.a = 0 /\ x.b = 0 /\ x.c = 0 /\ x.d = 0

\* lowest terms
Norm(x) ==
    IF IsZero(x) THEN Zero
    ELSE IF x.q = 1 THEN x
    ELSE LET g == Gcd(Gcd(Gcd(x.a, x.b), Gcd(x.c, x.d)), x.q)
         IN  [a |-> x.a \div g, b |-> x.b \div g, c |-> x.c \div g,
              d |-> x.d \div g, q |-> x.q \div g, p |-> x.p]

\* the integer n (a Python int or a real array entry)
Num(n) == [a |-> n, b |-> 0, c |-> 0, d |-> 0, q |-> 1, p |-> 0]

\* the rational m / n, n > 0
Rat(m, n) == Norm([a |-> m, b |-> 0, c |-> 0, d |-> 0, q |-> n, p |-> 0])

\* np.pi
Pi == [a |-> 1, b |-> 0, c |-> 0, d |-> 0, q |-> 1, p |-> 1]

\* 1j
ImagUnit == [a |-> 0, b |-> 0, c |-> 1, d |-> 0, q |-> 1, p |-> 0]

Add(x, y) ==
    IF IsZero(x) THEN y
    ELSE IF IsZero(y) THEN x
    ELSE CASE x.p = y.p ->
        LET g == Gcd(x.q, y.q)
            s == y.q \div g
            t == x.q \div g
        IN  Norm([a |-> x.a * s + y.a * t, b |-> x.b * s + y.b * t,
                  c |-> x.c * s + y.c * t, d |-> x.d * s + y.d * t,
                  q |-> x.q * s, p |-> x.p])

Neg(x) == [x EXCEPT !.a = -x.a, !.b = -x.b, !.c = -x.c, !.d = -x.d]

Sub(x, y) == Add(x, Neg(y))

\* (xr + i*xi) * (yr + i*yi) with xr, xi, yr, yi in Z[sqrt(3)]
Mul(x, y) ==
    IF IsZero(x) \/ IsZero(y) THEN Zero
    ELSE Norm([a |-> (x.a * y.a + 3 * x.b * y.b) - (x.c * y.c + 3 * x.d * y.d),
               b |-> (x.a * y.b + x.b * y.a) - (x.c * y.d + x.d * y.c),
               c |-> (x.a * y.c + 3 * x.b * y.d) + (x.c * y.a + 3 * x.d * y.b),
               d |-> (x.a * y.d + x.b * y.c) + (x.c * y.b + x.d * y.a),
               q |-> x.q * y.q, p |-> x.p + y.p])

\* np.real of one number
Re(x) == Norm([x EXCEPT !.c = 0, !.d = 0])

\* the imaginary part of one number, as a real number
Im(x) == Norm([x EXCEPT !.a = x.c, !.b = x.d, !.c = 0, !.d = 0])

IsReal(x) == x.c = 0 /\ x.d = 0

\* 2 * exp(2*pi*i*m/12) for m = 0 .. 11: <<a, b, c, d>> of the number over q = 2
Twelfth ==
    << <<2, 0, 0, 0>>,  <<0, 1, 1, 0>>,   <<1, 0, 0, 1>>,   <<0, 0, 2, 0>>,
       <<-1, 0, 0, 1>>, <<0, -1, 1, 0>>,  <<-2, 0, 0, 0>>,  <<0, -1, -1, 0>>,
       <<-1, 0, 0, -1>>, <<0, 0, -2, 0>>, <<1, 0, 0, -1>>,  <<0, 1, -1, 0>> >>

\* exp(2*pi*i*m/12) for m = 0 .. 11, as numbers
Root12 ==
    [m \in 1..12 |->
        Norm([a |-> Twelfth[m][1], b |-> Twelfth[m][2], c |-> Twelfth[m][3],
              d |-> Twelfth[m][4], q |-> 2, p |-> 0])]

\* exp(2*pi*i*k/n) for n dividing 12 and any integer k
Exp2PiI(k, n) == Root12[((k * (12 \div n)) % 12) + 1]

RECURSIVE Sum(_, _)
\* F(1) + ... + F(n)
Sum(F(_), n) == IF n = 0 THEN Zero ELSE Add(Sum(F, n - 1), F(n))

RECURSIVE Tab(_, _)
\* the sequence << F(1), ..., F(n) >>
Tab(F(_), n) == IF n = 0 THEN << >> ELSE Append(Tab(F, n - 1), F(n))

----------------------------------------------------------------------------
(***************************************************************************)
(* Library transforms, as the definitions numpy / scipy document.          *)
(* Sequences are 1-based here; index j stands for the Python index j - 1.  *)
(***************************************************************************)
\* scipy.fft.fft: X[k] = sum_n x[n] * exp(-2*pi*i*k*n/N)
fft(x) ==
    LET N == Len(x)
    IN  Tab(LAMBDA k : Sum(LAMBDA n : Mul(x[n], Exp2PiI(-((k - 1) * (n - 1)), N)), N), N)

\* scipy.fft.ifft: x[n] = (1/N) * sum_k X[k] * exp(2*pi*i*k*n/N)
ifft(X) ==
    LET N == Len(X)
    IN  Tab(LAMBDA n : Mul(Rat(1, N),
                           Sum(LAMBDA k : Mul(X[k], Exp2PiI((k - 1) * (n - 1), N)), N)), N)

\* np.fft.fftfreq(n, d=1) for n >= 1: [0, 1, ..., (n-1)//2, -(n//2), ..., -1] / n
fftfreq(n) ==
    Tab(LAMBDA j : IF j - 1 <= (n - 1) \div 2 THEN Rat(j - 1, n) ELSE Rat((j - 1) - n, n), n)

\* np.fft.fftfreq evaluates 1.0 / (n * d) first: n = 0 raises
fftfreqRaises(n) == IF n = 0 THEN "ZeroDivisionError" ELSE ""

\* np.real of a sequence
real(z) == Tab(LAMBDA j : Re(z[j]), Len(z))

----------------------------------------------------------------------------
(***************************************************************************)
(* spectralDeriv                                                           *)
(***************************************************************************)
\* the frequencies written out by hand as [0, 1, ..., N//2, -(N//2) + 1, ..., -1] / N,
\* the Nyquist index of an even N given the positive frequency, times 2 * np.pi
AngularFreqsPositiveNyquist(N) ==
    Tab(LAMBDA j : Mul(Mul(IF j - 1 <= N \div 2 THEN Rat(j - 1, N) ELSE Rat((j - 1) - N, N),
                           Num(2)), Pi), N)

\* freqs = np.fft.fftfreq(N, d=1) * 2 * np.pi
AngularFreqs(N) ==
    LET f == fftfreq(N)
    IN  Tab(LAMBDA j : Mul(Mul(f[j], Num(2)), Pi), N)

\* ifft(1j * freqs * fft(array)): the complex sequence np.real is applied to
DerivSpectrumBack(arr) ==
    LET N     == Len(arr)
        freqs == AngularFreqs(N)
        X     == fft(arr)
    IN  ifft(Tab(LAMBDA j : Mul(Mul(ImagUnit, freqs[j]), X[j]), N))

\* spectralDeriv(array), array of length >= 1
spectralDeriv(arr) == real(DerivSpectrumBack(arr))

\* the exception spectralDeriv ends in, "" when it returns
spectralDerivRaises(arr) == fftfreqRaises(Len(arr))

----------------------------------------------------------------------------
(***************************************************************************)
(* 2D arrays: [n0, n1, v] is an ndarray of shape (n0, n1), v[r][c] its     *)
(* entry at Python index [r - 1, c - 1].                                   *)
(***************************************************************************)
MkArr(n0, n1, v) == [n0 |-> n0, n1 |-> n1, v |-> v]

\* the array of shape (n0, n1) with entry F(r, c) at [r - 1, c - 1]
Grid(F(_, _), n0, n1) ==
    MkArr(n0, n1, Tab(LAMBDA r : Tab(LAMBDA c : F(r, c), n1), n0))

\* array.T
Transpose(A) == Grid(LAMBDA r, c : A.v[c][r], A.n1, A.n0)

\* the entries in row-major order (what reshape reads)
Flatten(A) == Tab(LAMBDA j : A.v[((j - 1) \div A.n1) + 1][((j - 1) % A.n1) + 1],
                  A.n0 * A.n1)

\* a 1D array x as x.reshape(-1, 1)
AsColumn(x) == Grid(LAMBDA r, c : x[r], Len(x), 1)

\* a 1D array x as x.reshape(1, -1)
AsRow(x) == MkArr(1, Len(x), <<x>>)

\* numpy broadcasting of two shapes: equal, or one of them 1, along each axis
Broadcastable(A, B) ==
    /\ A.n0 = B.n0 \/ A.n0 = 1 \/ B.n0 = 1
    /\ A.n1 = B.n1 \/ A.n1 = 1 \/ B.n1 = 1

\* entry [r, c] of A broadcast to a larger shape
Bc(A, r, c) == A.v[IF A.n0 = 1 THEN 1 ELSE r][IF A.n1 = 1 THEN 1 ELSE c]

\* an elementwise binary operation of numpy on broadcastable arrays
Elementwise(Op(_, _), A, B) ==
    LET n0 == IF A.n0 = 1 THEN B.n0 ELSE A.n0
        n1 == IF A.n1 = 1 THEN B.n1 ELSE A.n1
    IN  Grid(LAMBDA r, c : Op(Bc(A, r, c), Bc(B, r, c)), n0, n1)

\* a scalar (or unary) operation applied to every entry
Map(Op(_), A) ==
    Grid(LAMBDA r, c : Op(A.v[r][c]), A.n0, A.n1)

\* the exception an elementwise operation on A and B ends in
BroadcastRaises(A, B) == IF Broadcastable(A, B) THEN "" ELSE "ValueError"

RECURSIVE ConcatOffByOne(_, _, _)
\* the loop differentiating the row before the one it is at
ConcatOffByOne(rows, r, deriv) ==
    IF r > Len(rows) THEN deriv
    ELSE ConcatOffByOne(rows, r + 1, deriv \o <<spectralDeriv(rows[r - 1])>>)

RECURSIVE Concat(_, _, _)
\* the loop `for slice_ in array[1:]: deriv = np.concatenate([deriv, f(slice_)])`
\* from row r on, f = spectralDeriv ... .reshape(1, -1)
Concat(rows, r, deriv) ==
    IF r > Len(rows) THEN deriv
    ELSE Concat(rows, r + 1, deriv \o <<spectralDeriv(rows[r])>>)

\* ddx(array) when no exception is raised
ddx(A) ==
    LET deriv == Concat(A.v, 2, <<spectralDeriv(A.v[1])>>)
    IN  MkArr(Len(deriv), Len(deriv[1]), deriv)

\* the exception ddx ends in: array[0] on an array without rows, then spectralDeriv
ddxRaises(A) ==
    IF A.n0 = 0 THEN "IndexError" ELSE fftfreqRaises(A.n1)

\* ddy without the transposition of the result back
ddyNotTransposedBack(A) ==
    LET array_T == Transpose(A)
        deriv   == Concat(array_T.v, 2, <<spectralDeriv(array_T.v[1])>>)
    IN  MkArr(Len(deriv), Len(deriv[1]), deriv)

\* ddy(array) when no exception is raised
ddy(A) ==
    LET array_T == Transpose(A)
        deriv   == Concat(array_T.v, 2, <<spectralDeriv(array_T.v[1])>>)
    IN  Transpose(MkArr(Len(deriv), Len(deriv[1]), deriv))

\* the exception ddy ends in
ddyRaises(A) == ddxRaises(Transpose(A))

----------------------------------------------------------------------------
(***************************************************************************)
(* getVorticity                                                            *)
(***************************************************************************)
\* omega = ddx(vy) - ddy(vx), when no exception is raised
getVorticity(u, v) == Elementwise(Sub, ddx(v), ddy(u))

\* the exception getVorticity(vx, vy) ends in, "" when it returns: the two
\* derivatives are evaluated first, the subtraction broadcasts or raises
getVorticityRaises(u, v) ==
    IF ddxRaises(v) # "" THEN ddxRaises(v)
    ELSE IF ddyRaises(u) # "" THEN ddyRaises(u)
    ELSE BroadcastRaises(v, u)

\* the number of ddx / ddy calls getVorticity(vx, vy) has completed when it ends
getVorticityWork(u, v) ==
    IF ddxRaises(v) # "" THEN 0 ELSE IF ddyRaises(u) # "" THEN 1 ELSE 2

----------------------------------------------------------------------------
(***************************************************************************)
(* getOkuboWeiss                                                           *)
(***************************************************************************)
\* scipy.fftpack.fft2: the 1D transform along axis 1, then along axis 0
fft2(A) ==
    LET alongRows(B) == MkArr(B.n0, B.n1, Tab(LAMBDA r : fft(B.v[r]), B.n0))
    IN  Transpose(alongRows(Transpose(alongRows(A))))

\* scipy.fftpack.ifft2
ifft2(A) ==
    LET alongRows(B) == MkArr(B.n0, B.n1, Tab(LAMBDA r : ifft(B.v[r]), B.n0))
    IN  Transpose(alongRows(Transpose(alongRows(A))))

\* np.meshgrid(x, y), indexing 'xy': both inputs are flattened, the first
\* runs along axis 1 of both outputs' shape (len(y), len(x)), the second along axis 0
meshgrid(x, y) ==
    LET xs == Flatten(x)
        ys == Flatten(y)
    IN  << Grid(LAMBDA r, c : xs[c], Len(ys), Len(xs)),
           Grid(LAMBDA r, c : ys[r], Len(ys), Len(xs)) >>

\* 2 * np.pi * 1j * k
TwoPiI(k) == Mul(Mul(Mul(Num(2), Pi), ImagUnit), k)

\* the grids unpacked in the other order: ky, kx = np.meshgrid(kx, ky)
WaveGridsSwapped(N) ==
    LET kx    == AsColumn(fftfreq(N))
        ky    == AsRow(fftfreq(N))
        grids == meshgrid(kx, ky)
    IN  << grids[2], grids[1] >>

\* the wavenumber grids <<kx, ky>> after kx, ky = np.meshgrid(kx, ky),
\* for psi.shape[0] = N >= 1
WaveGrids(N) ==
    LET kx == AsColumn(fftfreq(N))
        ky == AsRow(fftfreq(N))
    IN  meshgrid(kx, ky)

\* every local of getOkuboWeiss(psi), when no exception is raised
OkuboWeissLocals(f) ==
    LET N       == f.n0
        grids   == WaveGrids(N)
        kx      == grids[1]
        ky      == grids[2]
        psi_hat == fft2(f)
        ikx     == Map(TwoPiI, kx)
        iky     == Map(TwoPiI, ky)
        psi_xy  == Map(Re, ifft2(Elementwise(Mul, Elementwise(Mul, ikx, iky), psi_hat)))
        psi_xx  == Map(Re, ifft2(Elementwise(Mul, Elementwise(Mul, ikx, ikx), psi_hat)))
        psi_yy  == Map(Re, ifft2(Elementwise(Mul, Elementwise(Mul, iky, iky), psi_hat)))
    IN  [kx |-> kx, ky |-> ky, psi_xy |-> psi_xy, psi_xx |-> psi_xx, psi_yy |-> psi_yy,
         Q |-> Elementwise(Sub, Elementwise(Mul, psi_xy, psi_xy),
                                Elementwise(Mul, psi_xx, psi_yy))]

\* getOkuboWeiss(psi)
getOkuboWeiss(f) == OkuboWeissLocals(f).Q

\* the exception getOkuboWeiss(psi) ends in, "" when it returns: fftfreq(0),
\* the transform of an array without columns, then the broadcast of the
\* (N, N) wavenumber grids against psi_hat
getOkuboWeissRaises(f) ==
    IF fftfreqRaises(f.n0) # "" THEN fftfreqRaises(f.n0)
    ELSE IF f.n1 = 0 THEN "ValueError"
    ELSE BroadcastRaises(MkArr(f.n0, f.n0, << >>), f)

\* the number of 2D transforms getOkuboWeiss(psi) has completed when it ends
getOkuboWeissWork(f) ==
    IF fftfreqRaises(f.n0) # "" \/ f.n1 = 0 THEN 0
    ELSE IF BroadcastRaises(MkArr(f.n0, f.n0, << >>), f) # "" THEN 1
    ELSE 4

----------------------------------------------------------------------------
(***************************************************************************)
(* Inputs                                                                  *)
(***************************************************************************)
None == "none"

\* the real sequences of length n with integer entries in -MaxVal .. MaxVal:
\* all of them for n <= 4, and for longer ones those with at most
\* MaxNonzero + 1 non-zero entries
Sequences1D(n) ==
    { [j \in 1..n |-> Num(e[j])] :
        e \in { g \in [1..n -> (-MaxVal)..MaxVal] :
                  n <= 4 \/ Cardinality({ j \in 1..n : g[j] # 0 }) <= MaxNonzero + 1 } }

\* the field of shape (n0, n1) that is e on DOMAIN e and zero elsewhere
FieldOf(n0, n1, e) ==
    Grid(LAMBDA r, c : IF <<r, c>> \in DOMAIN e THEN Num(e[<<r, c>>]) ELSE Zero, n0, n1)

\* all real fields of shape (n0, n1) with integer entries in -MaxVal .. MaxVal,
\* at most MaxNonzero of them non-zero
Fields(n0, n1) ==
    LET Pos     == (1..n0) \X (1..n1)
        Support == { S \in SUBSET Pos : Cardinality(S) <= MaxNonzero }
        NonZero == ((-MaxVal)..MaxVal) \ {0}
    IN  UNION { { FieldOf(n0, n1, e) : e \in [S -> NonZero] } : S \in Support }

\* what a call returned, or the exception it ended in
Returned(val) == [raised |-> "", val |-> val]
Raised(e)     == [raised |-> e, val |-> None]

----------------------------------------------------------------------------
(***************************************************************************)
(* Spec: the pipeline of the tests and of plotNumericalChecks on a square  *)
(* stream function: velocity, continuity, the two numerical checks, and    *)
(* the Okubo-Weiss field.                                                  *)
(***************************************************************************)
\* fft(array, overwrite_x=True) works in place: the real array is left
\* holding the real part of its spectrum
spectralDerivOverwrites(arr) == real(fft(arr))

\* the contents of spectralDeriv's argument after the call: fft and
\* np.fft.fftfreq only read it (no overwrite_x, no in-place operation)
spectralDerivLeaves(arr) == arr

\* the contents of ddx's / ddy's argument after the call: the rows (columns)
\* are views handed to spectralDeriv
ddxLeaves(A) == MkArr(A.n0, A.n1, Tab(LAMBDA r : spectralDerivLeaves(A.v[r]), A.n0))
ddyLeaves(A) == Transpose(ddxLeaves(Transpose(A)))

Init ==
    /\ pc = "psi"
    /\ psi \in UNION { Fields(N, N) : N \in Sizes }
    /\ vx = None /\ vy = None /\ array = None /\ result = None

\* vx = ddy(psi); vy = -ddx(psi)
Velocity ==
    /\ pc = "psi"
    /\ vx' = ddy(psi)
    /\ vy' = Map(Neg, ddx(ddyLeaves(psi)))
    /\ psi' = ddxLeaves(ddyLeaves(psi))
    /\ pc' = "velocity"
    /\ UNCHANGED <<array, result>>

\* divergence = ddx(vx) + ddy(vy)
Continuity ==
    /\ pc = "velocity"
    /\ result' = Returned(Elementwise(Add, ddx(vx), ddy(vy)))
    /\ pc' = "continuity"
    /\ UNCHANGED <<array, psi, vx, vy>>

\* A = vx * ddx(psi) + vy * ddy(psi)
\* B = vx**2 + vy**2 - ddx(psi)**2 - ddy(psi)**2
NumericalChecks ==
    /\ pc = "velocity"
    /\ LET sq(F) == Elementwise(Mul, F, F)
           A == Elementwise(Add, Elementwise(Mul, vx, ddx(psi)),
                                 Elementwise(Mul, vy, ddy(psi)))
           B == Elementwise(Sub, Elementwise(Sub, Elementwise(Add, sq(vx), sq(vy)),
                                                  sq(ddx(psi))),
                                 sq(ddy(psi)))
       IN  result' = Returned([A |-> A, B |-> B])
    /\ pc' = "checks"
    /\ UNCHANGED <<array, psi, vx, vy>>

\* getOkuboWeiss(psi), with its locals
OkuboWeiss ==
    /\ pc = "psi"
    /\ result' = Returned(OkuboWeissLocals(psi))
    /\ pc' = "okuboweiss"
    /\ UNCHANGED <<array, psi, vx, vy>>

Next == Velocity \/ Continuity \/ NumericalChecks \/ OkuboWeiss

Spec == Init /\ [][Next]_vars

----------------------------------------------------------------------------
(***************************************************************************)
(* SpecAxis: one call of spectralDeriv on a 1D array, or of ddx / ddy on   *)
(* a 2D array of any shape, empty axes included.                           *)
(***************************************************************************)
InitAxis ==
    /\ \/ /\ pc = "arg1d"
          /\ array \in UNION { Sequences1D(n) : n \in Lens }
       \/ /\ pc = "arg2d"
          /\ array \in UNION { Fields(n0, n1) : n0 \in {0} \cup Sizes, n1 \in {0} \cup Sizes }
    /\ psi = None /\ vx = None /\ vy = None /\ result = None

\* spectralDeriv(array); back is the value np.real is applied to
CallSpectralDeriv ==
    /\ pc = "arg1d"
    /\ result' = IF spectralDerivRaises(array) # ""
                 THEN Raised(spectralDerivRaises(array))
                 ELSE [raised |-> "", val |-> spectralDeriv(array),
                       back |-> DerivSpectrumBack(array)]
    /\ array' = spectralDerivLeaves(array)
    /\ pc' = "spectralDeriv"
    /\ UNCHANGED <<psi, vx, vy>>

\* ddx(array)
CallDdx ==
    /\ pc = "arg2d"
    /\ result' = IF ddxRaises(array) # "" THEN Raised(ddxRaises(array))
                 ELSE Returned(ddx(array))
    /\ pc' = "ddx"
    /\ UNCHANGED <<array, psi, vx, vy>>

\* ddy(array)
CallDdy ==
    /\ pc = "arg2d"
    /\ result' = IF ddyRaises(array) # "" THEN Raised(ddyRaises(array))
                 ELSE Returned(ddy(array))
    /\ pc' = "ddy"
    /\ UNCHANGED <<array, psi, vx, vy>>

NextAxis == CallSpectralDeriv \/ CallDdx \/ CallDdy

SpecAxis == InitAxis /\ [][NextAxis]_vars

----------------------------------------------------------------------------
(***************************************************************************)
(* SpecShape: one call of getVorticity(vx, vy) or getOkuboWeiss(psi) with  *)
(* arguments of any shapes.                                                *)
(***************************************************************************)
AnyShapeFields == UNION { Fields(n0, n1) : n0 \in ShapeDims, n1 \in ShapeDims }

InitShape ==
    /\ \/ /\ pc = "argsVorticity"
          /\ vx \in AnyShapeFields
          /\ vy \in AnyShapeFields
          /\ psi = None
       \/ /\ pc = "argsOkuboWeiss"
          /\ psi \in AnyShapeFields
          /\ vx = None /\ vy = None
    /\ array = None /\ result = None

\* getVorticity(vx, vy); work counts the ddx / ddy calls completed by the end
CallGetVorticity ==
    /\ pc = "argsVorticity"
    /\ result' = IF getVorticityRaises(vx, vy) # ""
                 THEN [raised |-> getVorticityRaises(vx, vy), val |-> None,
                       work |-> getVorticityWork(vx, vy)]
                 ELSE [raised |-> "", val |-> getVorticity(vx, vy),
                       work |-> getVorticityWork(vx, vy)]
    /\ pc' = "getVorticity"
    /\ UNCHANGED <<array, psi, vx, vy>>

\* getOkuboWeiss(psi); work counts the 2D transforms completed by the end
CallGetOkuboWeiss ==
    /\ pc = "argsOkuboWeiss"
    /\ result' = IF getOkuboWeissRaises(psi) # ""
                 THEN [raised |-> getOkuboWeissRaises(psi), val |-> None,
                       work |-> getOkuboWeissWork(psi)]
                 ELSE [raised |-> "", val |-> getOkuboWeiss(psi),
                       work |-> getOkuboWeissWork(psi)]
    /\ pc' = "getOkuboWeiss"
    /\ UNCHANGED <<array, psi, vx, vy>>

NextShape == CallGetVorticity \/ CallGetOkuboWeiss

SpecShape == InitShape /\ [][NextShape]_vars

----------------------------------------------------------------------------
(***************************************************************************)
(* getRandomStreamFunction.  The samples of np.random.rand are chosen by   *)
(* the action; real numbers here are rationals (b = c = d = 0, p = 0).     *)
(***************************************************************************)
\* a float that is not finite: the result of 0.0 / 0.0 (nan) or x / 0.0 (inf)
NotFinite == [a |-> 0, b |-> 0, c |-> 0, d |-> 0, q |-> 0, p |-> 0]

\* x < y for rationals
Less(x, y) == x.a * y.q < y.a * x.q

\* np.abs of a rational
AbsNum(x) == IF x.a < 0 THEN Neg(x) ELSE x

\* numpy's x / m for rationals: division by zero gives a non-finite value
\* (and a warning), not an exception
Div(x, m) ==
    IF IsZero(m) THEN NotFinite
    ELSE IF m.a > 0 THEN Mul(x, Rat(m.q, m.a)) ELSE Mul(x, Rat(-m.q, -m.a))

\* 2 * np.random.rand(N, N) - 1 takes values in [-1, 1): the multiples of
\* 1 / NoiseRes in that interval
NoiseLevels == { Rat(k, NoiseRes) : k \in (-NoiseRes)..(NoiseRes - 1) }

\* the sampled noise fields: every field for N <= 2, and for larger N the
\* fields with at most MaxNonzero + 1 non-zero samples
NoiseFields(N) ==
    LET Pos     == (1..N) \X (1..N)
        Support == { S \in SUBSET Pos : N <= 2 \/ Cardinality(S) <= MaxNonzero + 1 }
        NonZero == NoiseLevels \ {Zero}
    IN  UNION { { Grid(LAMBDA r, c : IF <<r, c>> \in S THEN e[<<r, c>>] ELSE Zero, N, N) :
                    e \in [S -> NonZero] } : S \in Support }

\* one axis of the periodic smoothing: weights (1, 2, 1) / 4 around each
\* point, indices wrapping (mode='wrap'); the binomial weights stand for the
\* normalised Gaussian weights of scipy
SmoothRows(F) ==
    LET w(c) == ((c - 1) % F.n1) + 1
    IN  Grid(LAMBDA r, c : Mul(Rat(1, 4),
                 Add(Add(F.v[r][w(c - 1 + F.n1)], Mul(Num(2), F.v[r][c])), F.v[r][w(c + 1)])),
             F.n0, F.n1)

\* gaussian_filter(input, sigma, mode='wrap'): sigma = 0 filters no axis and
\* copies the input; otherwise each axis is smoothed in turn
gaussian_filter(F, sigma) ==
    IF sigma = 0 THEN F
    ELSE Transpose(SmoothRows(Transpose(SmoothRows(F))))

RECURSIVE MaxOf(_, _)
\* np.max of the first n entries of a non-empty 1D sequence
MaxOf(xs, n) ==
    IF n = 1 THEN xs[1]
    ELSE LET m == MaxOf(xs, n - 1) IN IF Less(m, xs[n]) THEN xs[n] ELSE m

\* np.max(pattern), the absolute value forgotten
MaxNoAbs(pattern) ==
    LET flat == Flatten(pattern) IN MaxOf(flat, Len(flat))

\* max_val = np.max(np.abs(pattern))
MaxAbs(pattern) ==
    LET flat == Flatten(Map(AbsNum, pattern)) IN MaxOf(flat, Len(flat))

\* the test written as `max_val < 0`
ZeroMaximumAsNegative(max_val) == Less(max_val, Zero)

\* the test `max_val == 0` of line 23
ZeroMaximum(max_val) == IsZero(max_val)

\* getRandomStreamFunction(N, sigma) for the noise sample drawn, with its locals
getRandomStreamFunction(N, sigma, noise) ==
    LET pattern == gaussian_filter(noise, sigma)
        max_val == MaxAbs(pattern)
    IN  IF ZeroMaximum(max_val)
        THEN [raised |-> "ValueError", val |-> None, noise |-> noise,
              pattern |-> pattern, max_val |-> max_val]
        ELSE [raised |-> "", val |-> Map(LAMBDA x : Div(x, max_val), pattern),
              noise |-> noise, pattern |-> pattern, max_val |-> max_val]

(***************************************************************************)
(* SpecGen: one call of getRandomStreamFunction(N, sigma).                 *)
(***************************************************************************)
InitGen ==
    /\ pc = "argsGenerator"
    /\ array \in [N : GenSizes, sigma : Sigmas]
    /\ psi = None /\ vx = None /\ vy = None /\ result = None

CallGetRandomStreamFunction ==
    /\ pc = "argsGenerator"
    /\ \E noise \in NoiseFields(array.N) :
          result' = getRandomStreamFunction(array.N, array.sigma, noise)
    /\ pc' = "getRandomStreamFunction"
    /\ UNCHANGED <<array, psi, vx, vy>>

NextGen == CallGetRandomStreamFunction

SpecGen == InitGen /\ [][NextGen]_vars

----------------------------------------------------------------------------
(***************************************************************************)
(* Properties                                                              *)
(***************************************************************************)
AllEntries(F, P(_)) == \A r \in 1..F.n0 : \A c \in 1..F.n1 : P(F.v[r][c])
SomeEntry(F, P(_))  == \E r \in 1..F.n0 : \E c \in 1..F.n1 : P(F.v[r][c])
IsZeroField(F)      == AllEntries(F, IsZero)
SameShape(F, G)     == F.n0 = G.n0 /\ F.n1 = G.n1
Column(F, c)        == Tab(LAMBDA r : F.v[r][c], F.n0)

\* C1: for every square field psi, the velocity vx = ddy(psi), vy = -ddx(psi)
\* is divergence-free: ddx(vx) + ddy(vy) is zero at every grid point, that is,
\* ddx(ddy(psi)) = ddy(ddx(psi)).
C1_DivergenceFree ==
    pc = "continuity" =>
        /\ SameShape(result.val, psi)
        /\ IsZeroField(result.val)
        /\ ddx(ddy(psi)) = ddy(ddx(psi))

\* a 4 x 4 stream function (Nyquist mode present) with a non-zero velocity
C1_Witness ==
    /\ pc = "continuity"
    /\ psi.n0 = 4
    /\ ~IsZeroField(vx) /\ ~IsZeroField(vy)
    /\ IsZeroField(result.val)

\* C2: the second partials getOkuboWeiss computes from one 2D transform
\* agree with the composed axis operators, psi_xx = ddx(ddx(psi)),
\* psi_yy = ddy(ddy(psi)), psi_xy = ddx(ddy(psi)), and so
\* Q = ddx(ddy(psi))^2 - ddx(ddx(psi)) * ddy(ddy(psi)), for every N.
C2_PathsAgree ==
    pc = "okuboweiss" =>
        LET xx == ddx(ddx(psi))
            yy == ddy(ddy(psi))
            xy == ddx(ddy(psi))
        IN  /\ result.val.psi_xx = xx
            /\ result.val.psi_yy = yy
            /\ result.val.psi_xy = xy
            /\ result.val.Q = Elementwise(Sub, Elementwise(Mul, xy, xy),
                                               Elementwise(Mul, xx, yy))

SecondDerivative1D(arr) ==
    LET N == Len(arr)
        f == fftfreq(N)
        X == fft(arr)
    IN  real(ifft(Tab(LAMBDA j : Mul(Mul(TwoPiI(f[j]), TwoPiI(f[j])), X[j]), N)))

\* C10: in getOkuboWeiss on an N x N input both wavenumber grids are N x N,
\* kx[row, col] = f[col] and ky[row, col] = f[row] for f = fftfreq(N), so
\* that psi_xx differentiates every row along axis 1 and psi_yy every column
\* along axis 0.
C10_WaveGrids ==
    pc = "okuboweiss" =>
        LET N  == psi.n0
            f  == fftfreq(N)
            kx == result.val.kx
            ky == result.val.ky
        IN  /\ kx.n0 = N /\ kx.n1 = N /\ ky.n0 = N /\ ky.n1 = N
            /\ \A r \in 1..N : \A c \in 1..N : kx.v[r][c] = f[c] /\ ky.v[r][c] = f[r]
            /\ \A r \in 1..N : result.val.psi_xx.v[r] = SecondDerivative1D(psi.v[r])
            /\ \A c \in 1..N :
                  Column(result.val.psi_yy, c) = SecondDerivative1D(Column(psi, c))

\* getOkuboWeiss ran on a 3 x 3 field whose second partials in x and in y differ
C10_Witness ==
    /\ pc = "okuboweiss"
    /\ psi.n0 = 3
    /\ result.val.kx # result.val.ky
    /\ ~IsZeroField(result.val.psi_xx)
    /\ result.val.psi_xx # result.val.psi_yy

\* C7: spectralDeriv returns the empty sequence for a length-0 input and
\* [0] for a length-1 input, and ddx / ddy of a field with a zero-length
\* axis return a field of the same (empty) shape; none of them fails.
C7_DegenerateLengths ==
    /\ pc = "spectralDeriv" /\ Len(array) = 0 =>
          result.raised = "" /\ result.val = << >>
    /\ pc = "spectralDeriv" /\ Len(array) = 1 =>
          result.raised = "" /\ result.val = << Zero >>
    /\ pc \in {"ddx", "ddy"} /\ (array.n0 = 0 \/ array.n1 = 0) =>
          result.raised = "" /\ SameShape(result.val, array)

\* the Nyquist coefficient X[N/2] = sum_n (-1)^n * a[n] of an even-length input
Nyquist(arr) == Sum(LAMBDA n : IF n % 2 = 1 THEN arr[n] ELSE Neg(arr[n]), Len(arr))

\* C8 as stated: for every real input of length N >= 1, even or odd, the
\* inverse transform that spectralDeriv takes the real part of has zero
\* imaginary part at every sample.
C8_ImaginaryPartZero ==
    pc = "spectralDeriv" /\ Len(array) >= 1 =>
        \A j \in 1..Len(array) : IsReal(result.back[j])

\* C8 amended: the imaginary part is zero at every sample when N is odd, and
\* for even N it is -pi * (-1)^n * X[N/2] / N at sample n, which is zero
\* exactly when the Nyquist coefficient X[N/2] of the input is zero; the
\* value returned is the real part.
C8_ImaginaryPartNyquist ==
    pc = "spectralDeriv" /\ Len(array) >= 1 =>
        LET N == Len(array)
        IN  /\ result.raised = ""
            /\ \A j \in 1..N :
                  /\ result.val[j] = Re(result.back[j])
                  /\ Im(result.back[j]) =
                        IF N % 2 = 1 THEN Zero
                        ELSE Mul(Mul(Pi, Rat(IF j % 2 = 1 THEN -1 ELSE 1, N)),
                                 Nyquist(array))

\* spectralDeriv ran on a length-4 input with a Nyquist component: the
\* derivative is not zero and the discarded imaginary part is not zero
C8_Witness ==
    /\ pc = "spectralDeriv"
    /\ Len(array) = 4
    /\ ~IsZero(Nyquist(array))
    /\ \E j \in 1..4 : ~IsZero(result.val[j])
    /\ \E j \in 1..4 : ~IsReal(result.back[j])

\* the field A with 1 added to every entry of row q
RowChanged(A, q) ==
    Grid(LAMBDA r, c : IF r = q THEN Add(A.v[r][c], Num(1)) ELSE A.v[r][c], A.n0, A.n1)

\* C9: for a field A of shape (N, M), N, M >= 1, ddx(A) has shape (N, M) and
\* its row r is spectralDeriv(A[r]), which a change of another row of A
\* leaves as it is; ddy(A) = transpose(ddx(transpose(A))) has shape (N, M)
\* and its column c is spectralDeriv of column c of A.
C9_AxisOperators ==
    /\ pc = "ddx" /\ array.n0 >= 1 /\ array.n1 >= 1 =>
          /\ result.raised = ""
          /\ SameShape(result.val, array)
          /\ \A r \in 1..array.n0 : result.val.v[r] = spectralDeriv(array.v[r])
          /\ \A q \in 1..array.n0 :
                LET changed == ddx(RowChanged(array, q))
                IN  \A r \in (1..array.n0) \ {q} : changed.v[r] = result.val.v[r]
    /\ pc = "ddy" /\ array.n0 >= 1 /\ array.n1 >= 1 =>
          /\ result.raised = ""
          /\ SameShape(result.val, array)
          /\ result.val = Transpose(ddx(Transpose(array)))
          /\ \A c \in 1..array.n1 :
                Column(result.val, c) = spectralDeriv(Column(array, c))

\* ddy ran on a 3 x 4 field and returned a non-zero derivative
C9_Witness ==
    /\ pc = "ddy"
    /\ array.n0 = 3 /\ array.n1 = 4
    /\ result.raised = ""
    /\ ~IsZeroField(result.val)

\* C3: getVorticity(vx, vy) with vx and vy of different shapes, and
\* getOkuboWeiss(psi) with a non-square psi, end in a shape-mismatch error
\* raised before any derivative or transform is computed; neither returns.
C3_ShapeMisuseRejected ==
    /\ pc = "getVorticity" /\ ~SameShape(vx, vy) =>
          result.raised # "" /\ result.work = 0
    /\ pc = "getOkuboWeiss" /\ psi.n0 # psi.n1 =>
          result.raised # "" /\ result.work = 0

\* C4: whenever the smoothed noise is zero at every grid point the call ends
\* in ValueError and returns no field; no call returns a field with a
\* non-finite value or divides by a zero maximum.
C4_ZeroFieldRaises ==
    pc = "getRandomStreamFunction" =>
        /\ IsZeroField(result.pattern) =>
              result.raised = "ValueError" /\ result.val = None
        /\ result.raised = "" =>
              /\ ~IsZero(result.max_val)
              /\ AllEntries(result.val, LAMBDA x : x.q # 0)

\* a noise sample that is not zero was smoothed to the zero field, and the
\* call raised
C4_Witness ==
    /\ pc = "getRandomStreamFunction"
    /\ ~IsZeroField(result.noise)
    /\ IsZeroField(result.pattern)
    /\ result.raised = "ValueError"

\* C5: whenever the smoothed field is not identically zero the call
\* returns, and the returned field has shape (N, N), every value in
\* [-1, 1], and at least one value of absolute value exactly 1.
C5_NormalisedRange ==
    pc = "getRandomStreamFunction" =>
        /\ ~IsZeroField(result.pattern) => result.raised = ""
        /\ result.raised = "" =>
              /\ result.val.n0 = array.N /\ result.val.n1 = array.N
              /\ AllEntries(result.val, LAMBDA x : x.q # 0 /\ ~Less(Num(1), AbsNum(x)))
              /\ SomeEntry(result.val, LAMBDA x : AbsNum(x) = Num(1))

\* a smoothed 3 x 3 field was normalised: it holds a value strictly between
\* 0 and 1 in absolute value, and a negative value
C5_Witness ==
    /\ pc = "getRandomStreamFunction"
    /\ array.N = 3 /\ array.sigma = 1
    /\ result.raised = ""
    /\ SomeEntry(result.val, LAMBDA x : ~IsZero(x) /\ Less(AbsNum(x), Num(1)))
    /\ SomeEntry(result.val, LAMBDA x : Less(x, Zero))

=============================================================================
